---- MODULE Spec2Model ----
(***************************************************************************)
(* State-machine model of the sala7ly backend: the User collection, the    *)
(* authentication service (register, login, password reset), the generic   *)
(* user endpoints and the authentication middleware.                       *)
(*                                                                         *)
(* An optional field (a JavaScript value that may be undefined) is a set:  *)
(* {} when unset, {v} when it holds v.  A call that awaits is several      *)
(* steps; between them it sits in reqs with its local variables.           *)
(*                                                                         *)
(* Spec is the whole API.  SpecReset, SpecAccounts, SpecGate and           *)
(* SpecAuthorize start from the same empty store and take the steps of one *)
(* part of it each.                                                        *)
(***************************************************************************)
EXTENDS Integers, Sequences, FiniteSets, Bags, TLC

\* ------------------------------------------------------------------ bounds
MaxUsers == 2      \* documents ever inserted in the User collection
MaxTicks == 1      \* clock steps taken
MaxTokens == 2     \* reset tokens ever generated
MaxReqs == 1       \* requests in flight at once
MaxDocs == 3       \* documents ever inserted when lists are read
MaxPage == 2       \* largest page and page size asked for
MaxRaces == 2          \* calls on one account in flight together

\* ------------------------------------------------------- program constants
ResetTTL == 10 * 60 * 1000
minLength == 6

undefined == {}
Some(v) == {v}
The(s) == CHOOSE v \in s : TRUE

\* ------------------------------------------------------------ input samples
Emails == {"a@x.io", "b@x.io"}
EmailInputs == Emails \cup {"not-an-email"}
roleEnum == {"client", "craftsman", "admin"}
RoleInputs == {"client", "root"}
ListEmails == Emails \cup {"c@x.io"}
\* A validator that accepts every text.
isEmailAny(e) == TRUE

\* validator.isEmail on the sample texts.
isEmail(e) == e \in ListEmails

bcryptHash(p) == "$2a$" \o p
bcryptCompare(candidate, stored) == stored = bcryptHash(candidate)

\* "secret1" and the text of its own bcrypt hash are both acceptable passwords;
\* "short" has fewer than minLength characters.
PasswordInputs == {"secret1", bcryptHash("secret1"), "short"}
\* (password, passwordConfirm) pairs of a request body: equal, different, short, absent.
PasswordPairs ==
    {<<"secret1", "secret1">>, <<bcryptHash("secret1"), bcryptHash("secret1")>>,
     <<"secret1", bcryptHash("secret1")>>, <<"short", "short">>, <<"secret1", "">>}
\* The pairs of a password change: equal, different, absent.
NewPasswordPairs == PasswordPairs \ {<<"short", "short">>}
\* One acceptable password, where the choice of password does not matter.
OnePassword == {<<"secret1", "secret1">>}

genPasswordResetToken(n) == "r" \o ToString(n)
RawTokens == {genPasswordResetToken(n) : n \in 1..MaxTokens}
sha256(t) == "sha256:" \o t

VARIABLES
    users,      \* the User collection: _id -> document
    nextId,     \* the next _id the store hands out
    now,        \* Date.now()
    issued,     \* how many reset tokens crypto.randomBytes has produced
    reqs,       \* the calls suspended at an await: a bag of their local state
    resp,       \* what the call that finished last answered
    fate,       \* history: what became of each reset token since it was issued last
    options     \* the variables of the closure of controllerObj.getAll({})

vars == <<users, nextId, now, issued, reqs, resp, fate, options>>

\* ------------------------------------------------------------------ errors
AppError(message, statusCode) ==
    [name |-> "AppError", message |-> message, statusCode |-> Some(statusCode),
     code |-> undefined]
Thrown(name) ==
    [name |-> name, message |-> "", statusCode |-> undefined, code |-> undefined]
NoError == Thrown("none")

\* The store's error for a value that a unique index holds already.
DuplicateKey == [Thrown("MongoServerError") EXCEPT !.code = Some(11000)]

\* An AppError is operational; an error thrown by a library or the runtime is not.
isOperational(err) == err.name = "AppError"

\* A token signed for the id next to the user's.
genSignedJwtTokenOffByOne(userId) ==
    [id |-> userId + 1, secret |-> "JWT_SECRET", expired |-> FALSE]

\* jwt.sign({ id: userId }, secret, { expiresIn }): the payload is the id alone;
\* the token carries the secret it was signed with, and whether its expiry has
\* passed when it is presented.
genSignedJwtToken(userId) == [id |-> userId, secret |-> "JWT_SECRET", expired |-> FALSE]

\* What a finished call answered: the error it threw or passed to next(), the
\* signed token it returned or was given, the reset token it returned or the
\* reset token, email or list options it was given, the user a middleware found or left in
\* req.user, the roles a gate was built with, the status and the data of the
\* StandardJsonResponse a generic handler or logout sent, and the cookie logout
\* attached.
Response(op, err, token, ref) ==
    [op |-> op, err |-> err, token |-> token, ref |-> ref, user |-> undefined,
     roles |-> {}, status |-> undefined, data |-> undefined, cookie |-> undefined]
Sent(op, status, data) ==
    [Response(op, NoError, undefined, "") EXCEPT !.status = Some(status), !.data = data]
Failed(op, err) == Response(op, err, undefined, "")

\* ------------------------------------------------------------------- store
NewUser(email, role, password, passwordConfirm, token, expires) ==
    [email |-> email, role |-> role, password |-> password,
     passwordConfirm |-> passwordConfirm,
     passwordResetToken |-> token, passwordResetExpires |-> expires, __v |-> 0]

\* A validation that accepts every document.
validateAny(doc) == TRUE

\* Schema validation of a whole document (create, save).
validate(doc) ==
    /\ isEmail(doc.email)
    /\ doc.role \in roleEnum
    /\ doc.password # "" /\ Len(doc.password) >= minLength
    /\ doc.passwordConfirm # "" /\ Len(doc.passwordConfirm) >= minLength
    /\ doc.passwordConfirm = doc.password

\* The unique index on email: another document holds the email.
duplicateEmail(email, self) ==
    \E i \in DOMAIN users \ self : users[i].email = email

Min(S) == CHOOSE x \in S : \A y \in S : x <= y

\* model.findOne({ email }): the matching document's id, or undefined.
findOneByEmail(email) ==
    LET m == {i \in DOMAIN users : users[i].email = email}
    IN  IF m = {} THEN undefined ELSE Some(Min(m))

\* model.create(doc): the collection after the insert.
insert(doc) == [i \in DOMAIN users \cup {nextId} |->
                   IF i = nextId THEN doc ELSE users[i]]

\* document.save() and findOneAndUpdate: the document with the given paths set.
update(uid, changes) ==
    [i \in DOMAIN users |->
        IF i = uid
          THEN [f \in DOMAIN users[i] |->
                   IF f \in DOMAIN changes THEN changes[f] ELSE users[i][f]]
          ELSE users[i]]

\* The paths document.save() sends to the store: those set to a value other than
\* the one the document was loaded with; a path the query did not select was
\* loaded with no value and counts as changed.
modifiedPaths(loaded, selected, changes) ==
    LET fs == {f \in DOMAIN changes : f \notin selected \/ changes[f] # loaded[f]}
    IN  [f \in fs |-> changes[f]]

\* The paths a query loads: the schema's default selection, and with
\* select('+password').
defaultSelect == {"email", "role", "passwordResetToken", "passwordResetExpires", "__v"}
selectPassword == defaultSelect \cup {"password"}

\* The document a query hands back for the stored document id: its _id and the
\* selected paths.
hydrate(id, paths) ==
    [f \in paths \cup {"_id"} |-> IF f = "_id" THEN id ELSE users[id][f]]

\* A document handed back as loaded.
keepVersion(doc) == doc

\* doc.__v = undefined: the document without its version.
unsetVersion(doc) == [f \in DOMAIN doc \ {"__v"} |-> doc[f]]

\* ----------------------------------------------------------------- requests
\* The local state of a call suspended at an await.
EmptyBody == [email |-> undefined, password |-> undefined,
              passwordResetToken |-> undefined, passwordResetExpires |-> undefined]
Call(op, pc, uid, tok, expires, password, passwordConfirm) ==
    [op |-> op, pc |-> pc, uid |-> uid, tok |-> tok, expires |-> expires,
     password |-> password, passwordConfirm |-> passwordConfirm, body |-> EmptyBody,
     doc |-> undefined]
\* controllerObj.getAll({}): the defaults of the parameters the closure starts
\* with.
getAllDefaults ==
    [filter |-> undefined, sortByFields |-> <<>>,
     selectedFields |-> [include |-> {}, exclude |-> {}], page |-> 1, pageLimit |-> 100]

Suspended(r) == r \in BagToSet(reqs)
Suspend(r) == reqs' = reqs (+) SetToBag({r})
Resume(r, next) == reqs' = (reqs (-) SetToBag({r})) (+) SetToBag({next})
Finish(r, answer) == reqs' = reqs (-) SetToBag({r}) /\ resp' = answer
CanSuspend == BagCardinality(reqs) < MaxReqs
Init ==
    /\ users = <<>>
    /\ nextId = 1
    /\ now = 0
    /\ issued = 0
    /\ reqs = EmptyBag
    /\ resp = Failed("none", NoError)
    /\ fate = [t \in RawTokens |-> "live"]
    /\ options = getAllDefaults

\* The wall clock advances by the lifetime of a reset token.
Tick ==
    /\ now < MaxTicks * ResetTTL
    /\ now' = now + ResetTTL
    /\ UNCHANGED <<users, nextId, issued, reqs, resp, fate, options>>

\* POST /auth/register: model.create, then a signed token for the new id.
register(email, password, passwordConfirm, role) ==
    LET doc == NewUser(email, role, password, passwordConfirm, undefined, undefined)
    IN  /\ IF ~validate(doc)
             THEN /\ resp' = Failed("register", Thrown("ValidationError"))
                  /\ UNCHANGED <<users, nextId>>
           ELSE IF duplicateEmail(email, {})
             THEN /\ resp' = Failed("register", DuplicateKey)
                  /\ UNCHANGED <<users, nextId>>
           ELSE /\ users' = insert(doc)
                /\ nextId' = nextId + 1
                /\ resp' = Response("register", NoError,
                                    Some(genSignedJwtToken(nextId)), "")
        /\ UNCHANGED <<now, options, issued, reqs, fate>>

Register(emails, pairs, roles) ==
    /\ nextId <= MaxUsers
    /\ \E email \in emails, pw \in pairs, role \in roles :
        register(email, pw[1], pw[2], role)

\* login with an answer of its own for an email nobody has.
loginTellsUnknown(email, password) ==
    LET user == findOneByEmail(email)
        correct == user # undefined /\ bcryptCompare(password, users[The(user)].password)
    IN  /\ resp' =
             IF email = "" \/ password = ""
               THEN Failed("login", AppError("require email and password", 400))
             ELSE IF user = undefined
               THEN Response("login", AppError("There is no user with this email", 404),
                             undefined, email)
             ELSE IF ~correct
               THEN Response("login", AppError("Incorrect email or password", 401),
                             undefined, email)
             ELSE Response("login", NoError, Some(genSignedJwtToken(The(user))), email)
        /\ UNCHANGED <<users, nextId, now, options, issued, reqs, fate>>

\* POST /auth/login.
login(email, password) ==
    LET user == findOneByEmail(email)
        correct == user # undefined /\ bcryptCompare(password, users[The(user)].password)
    IN  /\ resp' =
             IF email = "" \/ password = ""
               THEN Failed("login", AppError("require email and password", 400))
             ELSE IF user = undefined \/ ~correct
               THEN Response("login", AppError("Incorrect email or password", 401),
                             undefined, email)
             ELSE Response("login", NoError, Some(genSignedJwtToken(The(user))), email)
        /\ UNCHANGED <<users, nextId, now, options, issued, reqs, fate>>

Login ==
    \E email \in Emails \cup {""}, password \in PasswordInputs \cup {""} :
        login(email, password)

\* ------------------------------------------------------ password reset
\* The reset tokens generated so far.
IssuedTokens == {genPasswordResetToken(n) : n \in 1..issued}

\* forgetPassword(email) up to its call of user.save(); the controller's check
\* of the body comes first.
forgetPasswordFind(email) ==
    LET user == findOneByEmail(email)
        resetToken == genPasswordResetToken(issued + 1)
    IN  /\ IF email = ""
             THEN /\ resp' = Failed("forgetPassword",
                                    AppError("Please provide an email", 400))
                  /\ UNCHANGED <<reqs, issued>>
           ELSE IF user = undefined
             THEN /\ resp' = Failed("forgetPassword",
                                    AppError("There is no user with this email", 404))
                  /\ UNCHANGED <<reqs, issued>>
           ELSE /\ issued' = issued + 1
                /\ Suspend([Call("forgetPassword", "save", user, resetToken,
                                 Some(now + ResetTTL), "", "")
                               EXCEPT !.doc = Some(users[The(user)])])
                /\ UNCHANGED resp
        /\ UNCHANGED <<users, nextId, now, options, fate>>

ForgetPasswordFind ==
    /\ CanSuspend /\ issued < MaxTokens
    /\ \E email \in Emails \cup {""} : forgetPasswordFind(email)

\* user.save({ validateBeforeSave: false }) of forgetPassword, and its return.
forgetPasswordSave(r) ==
    LET uid == The(r.uid)
    IN  /\ Suspended(r) /\ r.op = "forgetPassword" /\ r.pc = "save"
        /\ IF uid \in DOMAIN users
             THEN /\ users' = update(uid, modifiedPaths(The(r.doc), defaultSelect,
                                          [passwordResetToken |-> Some(sha256(r.tok)),
                                           passwordResetExpires |-> r.expires]))
                  /\ fate' = [fate EXCEPT ![r.tok] = "live"]
                  /\ Finish(r, Response("forgetPassword", NoError, undefined, r.tok))
             ELSE /\ Finish(r, Failed("forgetPassword", Thrown("DocumentNotFoundError")))
                  /\ UNCHANGED <<users, fate>>
        /\ UNCHANGED <<nextId, now, options, issued>>

ForgetPasswordSave == \E r \in BagToSet(reqs) : forgetPasswordSave(r)

\* rollbackPasswordReset(email) up to its call of user.save().
rollbackPasswordResetFind(email) ==
    LET user == findOneByEmail(email)
    IN  /\ IF user = undefined
             THEN /\ resp' = Failed("rollbackPasswordReset", Thrown("TypeError"))
                  /\ UNCHANGED reqs
             ELSE /\ Suspend([Call("rollbackPasswordReset", "save", user, "",
                                   undefined, "", "")
                                 EXCEPT !.doc = Some(users[The(user)])])
                  /\ UNCHANGED resp
        /\ UNCHANGED <<users, nextId, now, options, issued, fate>>

RollbackPasswordResetFind ==
    /\ CanSuspend
    /\ \E email \in Emails : rollbackPasswordResetFind(email)

\* user.save({ validateBeforeSave: false }) of rollbackPasswordReset.
rollbackPasswordResetSave(r) ==
    LET uid == The(r.uid)
        changes == modifiedPaths(The(r.doc), defaultSelect,
                                 [passwordResetToken |-> undefined,
                                  passwordResetExpires |-> undefined])
    IN  /\ Suspended(r) /\ r.op = "rollbackPasswordReset" /\ r.pc = "save"
        /\ IF uid \in DOMAIN users
             THEN /\ users' = update(uid, changes)
                  /\ fate' = [t \in RawTokens |->
                                IF "passwordResetToken" \in DOMAIN changes
                                     /\ users[uid].passwordResetToken = Some(sha256(t))
                                     /\ t \in IssuedTokens
                                  THEN "revoked" ELSE fate[t]]
                  /\ Finish(r, Response("rollbackPasswordReset", NoError, undefined, ""))
             ELSE /\ Finish(r, Failed("rollbackPasswordReset",
                                      Thrown("DocumentNotFoundError")))
                  /\ UNCHANGED <<users, fate>>
        /\ UNCHANGED <<nextId, now, options, issued>>

RollbackPasswordResetSave == \E r \in BagToSet(reqs) : rollbackPasswordResetSave(r)

\* ---------------------------------------- POST /auth/forgot_password
\* NODE_ENV of the process.
Modes == {"development", "production", "testing"}

\* The payload that hands the reset token back in every mode.
resetTokenPayloadAlways(MODE, resetToken) == Some([resetToken |-> resetToken])

\* process.env.NODE_ENV === 'development' ? { resetToken } : null
resetTokenPayload(MODE, resetToken) ==
    IF MODE = "development" THEN Some([resetToken |-> resetToken]) ELSE undefined


\* service.rollbackPasswordReset(email) as the controller calls it, without
\* await: the call is left at its findOne. The record keeps, as history, the
\* reset token of the request that started it.
rollbackCall(email, resetToken) ==
    [Call("rollbackPasswordReset", "find", undefined, resetToken, undefined, "", "")
        EXCEPT !.body = [EmptyBody EXCEPT !.email = Some(email)]]

\* authController.forgetPassword from the return of service.forgetPassword's
\* user.save(): the try block either sends the response (delivered) or throws,
\* and then the rollback is started and the error goes to next().
authForgetPassword(r, MODE, delivered) ==
    LET uid == The(r.uid)
        email == The(r.doc).email
        resetToken == r.tok
    IN  /\ Suspended(r) /\ r.op = "forgetPassword" /\ r.pc = "save"
        /\ IF uid \notin DOMAIN users
             THEN /\ Finish(r, Failed("forgetPassword", Thrown("DocumentNotFoundError")))
                  /\ UNCHANGED <<users, fate>>
             ELSE /\ users' = update(uid, modifiedPaths(The(r.doc), defaultSelect,
                                          [passwordResetToken |-> Some(sha256(resetToken)),
                                           passwordResetExpires |-> r.expires]))
                  /\ fate' = [fate EXCEPT ![resetToken] = "live"]
                  /\ IF delivered
                       THEN Finish(r, Sent("forgetPassword", 200,
                                           resetTokenPayload(MODE, resetToken)))
                       ELSE /\ reqs' = (reqs (-) SetToBag({r}))
                                           (+) SetToBag({rollbackCall(email, resetToken)})
                            /\ resp' = Failed("forgetPassword",
                                   AppError("There was an error Sending the email. Try again later!",
                                            500))
        /\ UNCHANGED <<nextId, now, options, issued>>

AuthForgetPassword ==
    \E r \in BagToSet(reqs), MODE \in Modes, delivered \in BOOLEAN :
        authForgetPassword(r, MODE, delivered)

\* The findOne of a rollbackPasswordReset the controller started.
rollbackPasswordResetResume(r) ==
    LET user == findOneByEmail(The(r.body.email))
    IN  /\ Suspended(r) /\ r.op = "rollbackPasswordReset" /\ r.pc = "find"
        /\ IF user = undefined
             THEN Finish(r, Failed("rollbackPasswordReset", Thrown("TypeError")))
             ELSE /\ Resume(r, [r EXCEPT !.pc = "save", !.uid = user,
                                         !.doc = Some(users[The(user)])])
                  /\ UNCHANGED resp
        /\ UNCHANGED <<users, nextId, now, options, issued, fate>>

RollbackPasswordResetResume == \E r \in BagToSet(reqs) : rollbackPasswordResetResume(r)

\* The filter with $gte in place of $gt.
matchesResetTokenGte(doc, hashedToken, at) ==
    /\ doc.passwordResetToken = Some(hashedToken)
    /\ doc.passwordResetExpires # undefined
    /\ The(doc.passwordResetExpires) >= at

\* The filter { passwordResetToken: hashedToken, passwordResetExpires: { $gt: at } }.
matchesResetToken(doc, hashedToken, at) ==
    /\ doc.passwordResetToken = Some(hashedToken)
    /\ doc.passwordResetExpires # undefined
    /\ The(doc.passwordResetExpires) > at

\* model.findOne of resetPassword: the matching document's id, or undefined.
findOneByResetToken(hashedToken) ==
    LET m == {i \in DOMAIN users : matchesResetToken(users[i], hashedToken, now)}
    IN  IF m = {} THEN undefined ELSE Some(Min(m))

\* The error of resetPassword when no record matches.
InvalidOrExpired == AppError("Token is invalid or has expired", 400)

\* resetPassword(resetToken, password, passwordConfirm) up to its call of
\* updatePassword; the controller's check of the body comes first.
resetPassword(resetToken, password, passwordConfirm) ==
    LET user == findOneByResetToken(sha256(resetToken))
    IN  /\ IF password = "" \/ passwordConfirm = ""
             THEN /\ resp' = Failed("resetPassword",
                         AppError("Please provide a password and passwordConfirm", 400))
                  /\ UNCHANGED reqs
           ELSE IF user = undefined
             THEN /\ resp' = Response("resetPassword", InvalidOrExpired,
                                      undefined, resetToken)
                  /\ UNCHANGED reqs
           ELSE /\ Suspend(Call("resetPassword", "load", user, resetToken, undefined,
                                password, passwordConfirm))
                /\ UNCHANGED resp
        /\ UNCHANGED <<users, nextId, now, options, issued, fate>>

ResetPassword(pairs) ==
    /\ CanSuspend
    /\ \E resetToken \in RawTokens, pw \in pairs :
        resetPassword(resetToken, pw[1], pw[2])

\* updatePassword(userId, password, passwordConfirm) called on its own.
updatePassword(userId, password, passwordConfirm) ==
    /\ Suspend(Call("updatePassword", "load", Some(userId), "", undefined,
                    password, passwordConfirm))
    /\ UNCHANGED <<users, nextId, now, options, issued, resp, fate>>

UpdatePassword(pairs) ==
    /\ CanSuspend
    /\ \E userId \in 1..(nextId - 1), pw \in pairs :
        updatePassword(userId, pw[1], pw[2])

\* model.findById(userId).select('+password') of updatePassword.
updatePasswordLoad(r) ==
    /\ Suspended(r) /\ r.op \in {"updatePassword", "resetPassword"} /\ r.pc = "load"
    /\ IF The(r.uid) \in DOMAIN users
         THEN /\ Resume(r, [r EXCEPT !.pc = "save", !.doc = Some(users[The(r.uid)])])
              /\ UNCHANGED resp
         ELSE Finish(r, Failed(r.op, Thrown("TypeError")))
    /\ UNCHANGED <<users, nextId, now, options, issued, fate>>

UpdatePasswordLoad == \E r \in BagToSet(reqs) : updatePasswordLoad(r)

\* user.save() of updatePassword, and the signed token it returns.
updatePasswordSave(r) ==
    LET uid == The(r.uid)
        changes == modifiedPaths(The(r.doc), selectPassword,
                                 [password |-> r.password,
                                  passwordConfirm |-> r.passwordConfirm,
                                  passwordResetToken |-> undefined,
                                  passwordResetExpires |-> undefined])
    IN  /\ Suspended(r) /\ r.op \in {"updatePassword", "resetPassword"} /\ r.pc = "save"
        /\ IF ~validate([The(r.doc) EXCEPT !.password = r.password,
                                           !.passwordConfirm = r.passwordConfirm])
             THEN /\ Finish(r, Failed(r.op, Thrown("ValidationError")))
                  /\ UNCHANGED <<users, fate>>
           ELSE IF uid \notin DOMAIN users
             THEN /\ Finish(r, Failed(r.op, Thrown("DocumentNotFoundError")))
                  /\ UNCHANGED <<users, fate>>
           ELSE /\ users' = update(uid, changes)
                /\ fate' = IF r.op = "resetPassword"
                             THEN [fate EXCEPT ![r.tok] = "used"] ELSE fate
                /\ Finish(r, Response(r.op, NoError, Some(genSignedJwtToken(uid)), r.tok))
        /\ UNCHANGED <<nextId, now, options, issued>>

UpdatePasswordSave == \E r \in BagToSet(reqs) : updatePasswordSave(r)

\* ------------------------------------------------ generic user endpoints
\* Request bodies of PATCH /users/:id: an email, a reset token with or without
\* its expiry, an expiry alone, a password.
TokenBodies ==
    {[EmptyBody EXCEPT !.passwordResetToken = Some(sha256(t))] : t \in RawTokens}
ResetBodies ==
    TokenBodies
      \cup {[b EXCEPT !.passwordResetExpires = Some(now + ResetTTL)] : b \in TokenBodies}
      \cup {[EmptyBody EXCEPT !.passwordResetExpires = Some(now + ResetTTL)]}
      \cup {[EmptyBody EXCEPT !.password = Some("secret1")]}
ProfileBodies ==
    {[EmptyBody EXCEPT !.email = Some(e)] : e \in EmailInputs}
      \cup {[EmptyBody EXCEPT !.password = Some("secret1")]}
PatchBodies == ResetBodies \cup ProfileBodies

\* The middleware in front of PATCH /users/:id: the body carries a password.
passwordUpdateProtection(body) == body.password # undefined

\* isExist answering for every id the store ever handed out.
isExistEver(id) == id \in 1..(nextId - 1)

\* service.isExist(id): model.findById(id) found a document.
isExist(id) == id \in DOMAIN users

\* An update that sets no path.
setPathsNone(body) == <<>>

\* The paths of a body that are set, as the changes of an update.
setPaths(body) ==
    LET fs == {f \in DOMAIN body : body[f] # undefined}
    IN  [f \in fs |-> IF f \in {"email", "password"} THEN The(body[f]) ELSE body[f]]

\* PATCH /users/:id up to the controller's call of service.updateOneById.
updateOneByIdCheck(id, body) ==
    /\ IF passwordUpdateProtection(body)
         THEN /\ resp' = Failed("updateOneById",
                                AppError("This route is not for password updates", 400))
              /\ UNCHANGED reqs
       ELSE IF ~isExist(id)
         THEN /\ resp' = Failed("updateOneById",
                                AppError("No User found with that ID", 404))
              /\ UNCHANGED reqs
       ELSE /\ Suspend([Call("updateOneById", "update", Some(id), "", undefined, "", "")
                           EXCEPT !.body = body])
            /\ UNCHANGED resp
    /\ UNCHANGED <<users, nextId, now, options, issued, fate>>

UpdateOneByIdCheck(bodies) ==
    /\ CanSuspend
    /\ \E id \in 1..(nextId - 1), body \in bodies : updateOneByIdCheck(id, body)

\* model.findOneAndUpdate({ _id: id }, body, { new: true, runValidators: true })
\* and the controller's answer. The update validators run on the body before
\* the command goes to the store, so a body they reject is answered with their
\* error whether or not the document is there.
updateOneById(r) ==
    LET id == The(r.uid)
    IN  /\ Suspended(r) /\ r.op = "updateOneById" /\ r.pc = "update"
        /\ IF r.body.email # undefined /\ ~isEmail(The(r.body.email))
             THEN /\ Finish(r, Failed("updateOneById", Thrown("ValidationError")))
                  /\ UNCHANGED users
           ELSE IF ~isExist(id)
             THEN /\ Finish(r, Failed("updateOneById",
                                      AppError("User could not be updated. Please try again.", 409)))
                  /\ UNCHANGED users
           ELSE IF r.body.email # undefined /\ duplicateEmail(The(r.body.email), {id})
             THEN /\ Finish(r, Failed("updateOneById", DuplicateKey))
                  /\ UNCHANGED users
           ELSE /\ users' = update(id, setPaths(r.body))
                /\ Finish(r, Sent("updateOneById", 200,
                                  Some(unsetVersion(hydrate(id, defaultSelect)'))))
        /\ UNCHANGED <<nextId, now, options, issued, fate>>

UpdateOneById == \E r \in BagToSet(reqs) : updateOneById(r)

\* DELETE /users/:id up to the controller's call of service.deleteOneById.
deleteOneByIdCheck(id) ==
    /\ IF ~isExist(id)
         THEN /\ resp' = Failed("deleteOneById",
                                AppError("No User found with that ID", 404))
              /\ UNCHANGED reqs
         ELSE /\ Suspend(Call("deleteOneById", "delete", Some(id), "", undefined, "", ""))
              /\ UNCHANGED resp
    /\ UNCHANGED <<users, nextId, now, options, issued, fate>>

DeleteOneByIdCheck ==
    /\ CanSuspend
    /\ \E id \in 1..(nextId - 1) : deleteOneByIdCheck(id)

\* A deleteOne that removes nothing.
deleteOneNothing(id) == users

\* model.deleteOne({ _id: id }): the collection without the document.
deleteOne(id) == [i \in DOMAIN users \ {id} |-> users[i]]

\* A repository deleteOneById that returns the document it removed.
deleteOneByIdFound(id) ==
    IF isExist(id) THEN Some(hydrate(id, defaultSelect)) ELSE undefined

\* What the repository's deleteOneById returns: null.
deleteOneByIdReturn(id) == undefined

\* The repository's deleteOneById and the controller's answer.
deleteOneById(r) ==
    LET id == The(r.uid)
        doc == deleteOneByIdReturn(id)
    IN  /\ Suspended(r) /\ r.op = "deleteOneById" /\ r.pc = "delete"
        /\ users' = deleteOne(id)
        /\ IF doc # undefined
             THEN Finish(r, Failed("deleteOneById",
                               AppError("User could not be deleted. Please try again.", 409)))
             ELSE Finish(r, Sent("deleteOneById", 200, undefined))
        /\ UNCHANGED <<nextId, now, options, issued, fate>>

DeleteOneById == \E r \in BagToSet(reqs) : deleteOneById(r)

\* model.findById(id): the document, or undefined.
findById(id) == IF id \in DOMAIN users THEN Some(hydrate(id, defaultSelect)) ELSE undefined

\* An id the store cannot cast to an ObjectId.
malformedId == 0

\* GET /users/:id.
getOneById(id) ==
    LET doc == findById(id)
    IN  /\ resp' = IF id = malformedId
                     THEN Failed("getOneById", Thrown("CastError"))
                   ELSE IF doc = undefined
                     THEN Failed("getOneById", AppError("No User found with that ID", 404))
                     ELSE Sent("getOneById", 200, doc)
        /\ UNCHANGED <<users, nextId, now, options, issued, reqs, fate>>

GetOneById(ids) == \E id \in ids : getOneById(id)

\* ------------------------------------------------------------------ lists
\* The values documents are sorted on, in the order the store compares strings.
collation == <<"a@x.io", "admin", "b@x.io", "c@x.io", "client", "craftsman">>
rank(v) == CHOOSE k \in 1..Len(collation) : collation[k] = v

\* The sort specifications asked for: no path, email downwards, role upwards.
SortInputs ==
    {<<>>, <<[path |-> "email", dir |-> -1]>>, <<[path |-> "role", dir |-> 1]>>}

\* `${sortByFields} _id`: the paths asked for, then _id ascending.
sortSpec(sortByFields) == sortByFields \o <<[path |-> "_id", dir |-> 1]>>

\* Document i comes before document j under a sort specification.
RECURSIVE before(_, _, _)
before(i, j, spec) ==
    IF spec = <<>> THEN FALSE
    ELSE LET f == Head(spec).path
             a == IF f = "_id" THEN i ELSE rank(users[i][f])
             b == IF f = "_id" THEN j ELSE rank(users[j][f])
         IN  IF a = b THEN before(i, j, Tail(spec))
             ELSE IF Head(spec).dir = 1 THEN a < b ELSE a > b

\* model.find(filter): the ids of the documents a filter on role matches.
find(filter) ==
    {i \in DOMAIN users : filter = undefined \/ users[i].role = The(filter)}

\* .sort(spec): the ids in the order of the specification.
sort(ids, spec) ==
    [k \in 1..Cardinality(ids) |->
        CHOOSE i \in ids : Cardinality({j \in ids : before(j, i, spec)}) = k - 1]

\* .skip(n) of the store: from position n + 1 on.
skip(seq, n) == SubSeq(seq, n + 1, Len(seq))

\* .limit(n) of the store: the first n, and all of them when n is 0.
limit(seq, n) ==
    IF n = 0 THEN seq ELSE SubSeq(seq, 1, IF n < Len(seq) THEN n ELSE Len(seq))


\* .select(`${selectedFields} -__v`): the paths handed back. The store refuses a
\* projection that includes some paths and excludes others than _id.
selectPaths(selectedFields) ==
    IF selectedFields.include # {}
      THEN undefined
      ELSE Some(defaultSelect \ (selectedFields.exclude \cup {"__v"}))

\* The repository's getAll: the documents of the page, or the store's error.
getAll(filter, sortByFields, selectedFields, page, pageLimit) ==
    LET startIndex == (page - 1) * pageLimit
        paths == selectPaths(selectedFields)
        ids == limit(skip(sort(find(filter), sortSpec(sortByFields)), startIndex),
                     pageLimit)
    IN  IF startIndex < 0 \/ paths = undefined
          THEN Failed("getAll", Thrown("MongoServerError"))
          ELSE [Sent("getAll", 200,
                     Some([k \in 1..Len(ids) |-> hydrate(ids[k], The(paths))]))
                  EXCEPT !.ref = [filter |-> filter, sortByFields |-> sortByFields,
                                  selectedFields |-> selectedFields,
                                  page |-> page, pageLimit |-> pageLimit]]

FilterInputs == {undefined, Some("client")}

GetAll(filters, sorts, pages) ==
    /\ \E filter \in filters, sortByFields \in sorts,
          selectedFields \in {[include |-> {}, exclude |-> {}],
                              [include |-> {}, exclude |-> {"role"}],
                              [include |-> {"email"}, exclude |-> {}]},
          page \in pages, pageLimit \in 0..MaxPage :
            resp' = getAll(filter, sortByFields, selectedFields, page, pageLimit)
    /\ UNCHANGED <<users, nextId, now, options, issued, reqs, fate>>

\* ------------------------------------------------------ GET /users
\* The query strings of list requests, as the parsers of APIFeatures hand their
\* parts back: each part is there or not.
ListQueries ==
    {[filter |-> f, sort |-> s, select |-> sel, page |-> p, limit |-> l] :
        f \in {undefined, Some(Some("client"))},
        s \in {undefined, Some(<<[path |-> "email", dir |-> -1]>>)},
        sel \in {undefined},
        p \in {undefined, Some(2)},
        l \in {undefined}}

\* a || b of JavaScript for a part that is there or not.
Or(a, b) == IF a # undefined THEN The(a) ELSE b

\* A sort string read as a select string: a path with '-' is left out, a path
\* without is included.
selectFromSort(sortByFields) ==
    [include |-> {sortByFields[k].path : k \in {j \in DOMAIN sortByFields :
                                                  sortByFields[j].dir = 1}},
     exclude |-> {sortByFields[k].path : k \in {j \in DOMAIN sortByFields :
                                                  sortByFields[j].dir = -1}}]

\* APIFeatures.createPaginationObject(page, pageLimit, count); totalPages is
\* ceil(count / pageLimit), not a number when pageLimit is 0.
createPaginationObject(page, pageLimit, count) ==
    [page |-> page, pageLimit |-> pageLimit, totalCount |-> count,
     totalPages |-> IF pageLimit > 0
                      THEN Some((count + pageLimit - 1) \div pageLimit)
                      ELSE undefined]

\* controller.getAll up to its await of service.getAll: the parts of the query
\* string are assigned to the variables of the closure, which keep them.
getAllRequest(query) ==
    LET filter == Or(query.filter, options.filter)
        sortByFields == Or(query.sort, options.sortByFields)
        selectedFields == Or(query.select, selectFromSort(sortByFields))
        page == Or(query.page, options.page)
        pageLimit == Or(query.limit, options.pageLimit)
        args == [filter |-> filter, sortByFields |-> sortByFields,
                 selectedFields |-> selectedFields, page |-> page,
                 pageLimit |-> pageLimit]
    IN  /\ options' = args
        /\ Suspend([Call("getAllUsers", "docs", undefined, "", undefined, "", "")
                       EXCEPT !.body = query, !.doc = Some([args |-> args])])
        /\ UNCHANGED <<users, nextId, now, issued, resp, fate>>

GetAllRequest ==
    /\ BagCardinality(reqs) < MaxRaces
    /\ \E query \in ListQueries : getAllRequest(query)

\* The documents of service.getAll arrive; service.count is called with the
\* filter the closure holds by then.
getAllDocs(r) ==
    LET a == The(r.doc).args
        answer == getAll(a.filter, a.sortByFields, a.selectedFields, a.page, a.pageLimit)
    IN  /\ Suspended(r) /\ r.op = "getAllUsers" /\ r.pc = "docs"
        /\ IF answer.err # NoError
             THEN Finish(r, Failed("getAllUsers", answer.err))
             ELSE /\ Resume(r, [r EXCEPT !.pc = "count",
                                         !.doc = Some([args |-> a,
                                                       docs |-> The(answer.data),
                                                       filter |-> options.filter])])
                  /\ UNCHANGED resp
        /\ UNCHANGED <<users, nextId, now, issued, fate, options>>

GetAllDocs == \E r \in BagToSet(reqs) : getAllDocs(r)

\* The count arrives; the pagination object is built from the page and the
\* pageLimit the closure holds by then, and the response is sent.
getAllCount(r) ==
    LET d == The(r.doc)
        count == Cardinality(find(d.filter))
        pagination == createPaginationObject(options.page, options.pageLimit, count)
    IN  /\ Suspended(r) /\ r.op = "getAllUsers" /\ r.pc = "count"
        /\ Finish(r, [Sent("getAllUsers", 200,
                           Some([count |-> Len(d.docs), data |-> d.docs,
                                 pagination |-> pagination]))
                        EXCEPT !.ref = r.body])
        /\ UNCHANGED <<users, nextId, now, issued, fate, options>>

GetAllCount == \E r \in BagToSet(reqs) : getAllCount(r)

\* The repository's createOne: the new document with its version unset.
createOneReturn(id, doc) ==
    unsetVersion([f \in DOMAIN doc \cup {"_id"} |-> IF f = "_id" THEN id ELSE doc[f]])

\* POST /users: model.create(req.body) and the controller's answer.
createOne(body) ==
    LET doc == NewUser(body.email, body.role, body.password, body.passwordConfirm,
                       undefined, undefined)
    IN  /\ IF ~validate(doc)
             THEN /\ resp' = Failed("createOne", Thrown("ValidationError"))
                  /\ UNCHANGED <<users, nextId>>
           ELSE IF duplicateEmail(body.email, {})
             THEN /\ resp' = Failed("createOne", DuplicateKey)
                  /\ UNCHANGED <<users, nextId>>
           ELSE /\ users' = insert(doc)
                /\ nextId' = nextId + 1
                /\ resp' = Sent("createOne", 201, Some(createOneReturn(nextId, doc)))
        /\ UNCHANGED <<now, options, issued, reqs, fate>>

CreateOne ==
    /\ nextId <= MaxDocs
    /\ \E email \in ListEmails, role \in {"client", "admin"} :
          createOne([email |-> email, role |-> role, password |-> "secret1",
                     passwordConfirm |-> "secret1"])

\* ------------------------------------------------- PATCH /auth/update_me
\* Request bodies of update_me: a name with or without a new email, alone or
\* next to a role, a password and a reset pair the caller would like to set.
MeBodies ==
    {[name |-> Some("Mona"), email |-> e, phone |-> undefined, role |-> more[1],
      password |-> more[2], passwordResetToken |-> more[3],
      passwordResetExpires |-> more[4]] :
        e \in {undefined, Some("c@x.io"), Some("not-an-email")},
        more \in {<<undefined, undefined, undefined, undefined>>,
                  <<Some("admin"), Some("hacked1"),
                    Some(sha256(genPasswordResetToken(1))), Some(2 * ResetTTL)>>}}

\* An update_me that takes the password of the body as well.
pickWithPassword(body) ==
    [name |-> body.name, email |-> body.email, phone |-> body.phone,
     password |-> body.password]

\* const { name, email, phone } = req.body
pickMe(body) == [name |-> body.name, email |-> body.email, phone |-> body.phone]

\* authController.updateMe with service.updateMe: findOneAndUpdate of the
\* caller's document with the three picked paths, and the answer. The schema of
\* the model keeps the paths it knows; of the three, the records here carry email.
updateMe(id, body) ==
    LET userData == pickMe(body)
    IN  /\ IF userData.email # undefined /\ ~isEmail(The(userData.email))
             THEN /\ resp' = Failed("updateMe", Thrown("ValidationError"))
                  /\ UNCHANGED users
           ELSE IF ~isExist(id)
             THEN /\ resp' = Sent("updateMe", 200, Some([user |-> undefined]))
                  /\ UNCHANGED users
           ELSE IF userData.email # undefined
                     /\ duplicateEmail(The(userData.email), {id})
             THEN /\ resp' = Failed("updateMe", DuplicateKey)
                  /\ UNCHANGED users
           ELSE /\ users' = update(id, setPaths(userData))
                /\ resp' = Sent("updateMe", 200,
                             Some([user |-> Some(unsetVersion(hydrate(id, defaultSelect)'))]))
        /\ UNCHANGED <<nextId, now, options, issued, reqs, fate>>

UpdateMe == \E id \in 1..(nextId - 1), body \in MeBodies : updateMe(id, body)

\* ------------------------------------------------------------- middleware
\* The credentials of a request: the Authorization header and the jwt cookie.
\* The tokens a client can present are signed by this server or not, expired or
\* not.
Bearer(t) == [scheme |-> "Bearer", token |-> Some(t)]
Requests ==
    {[authorization |-> a, cookie |-> c] :
        a \in {undefined} \cup {Some(Bearer([id |-> i, secret |-> s, expired |-> x])) :
                                 i \in 1..(nextId - 1), s \in {"JWT_SECRET", "other"},
                                 x \in BOOLEAN}
                \cup {Some([scheme |-> "Basic", token |-> undefined])},
        c \in {undefined} \cup {Some(genSignedJwtToken(i)) : i \in 1..(nextId - 1)}}

\* jwt.verify(token, JWT_SECRET): the signature and the expiry.
jwtVerify(token) == token.secret = "JWT_SECRET" /\ ~token.expired

\* req.cookies.jwt || req.headers.authorization.split(' ')[1]
tokenOf(req) ==
    IF req.cookie # undefined THEN req.cookie ELSE The(req.authorization).token

\* userService.getUserById is not a function of the service: the call throws.
getUserById(id) == Thrown("TypeError")

\* protect(req, res, next): the error handed to next(), and req.user.
protect(req) ==
    LET token == tokenOf(req)
        answer(err) == Response("protect", err, token, "")
    IN  /\ resp' =
             IF (req.authorization = undefined
                   \/ The(req.authorization).scheme # "Bearer")
                  /\ req.cookie = undefined
               THEN Failed("protect",
                      AppError("You are not logged in. Please log in to get access.", 401))
             ELSE IF token = undefined \/ ~jwtVerify(The(token))
               THEN answer(Thrown("JsonWebTokenError"))
             ELSE IF ~isExist(The(token).id)
               THEN answer(AppError(
                      "The user belonging to this token does no longer exist.", 401))
             ELSE answer(getUserById(The(token).id))
        /\ UNCHANGED <<users, nextId, now, options, issued, reqs, fate>>

Protect == \E req \in Requests : protect(req)

\* authService.logout(): the token it returns.
logoutToken == "none"

\* GET /auth/logout, the controller: the token of the service in the payload and
\* in a cookie that expires at once.
logout ==
    /\ resp' = [Sent("logout", 200, Some([token |-> logoutToken]))
                   EXCEPT !.cookie = Some([value |-> logoutToken, expires |-> now + 0])]
    /\ UNCHANGED <<users, nextId, now, options, issued, reqs, fate>>

\* ----------------------------------------------------------- error handler
handleCastErrorDB(err) == AppError("Invalid path: value", 400)
handleDuplicateFieldsDB(err) ==
    AppError("Duplicate field value: value, Please use another value!", 400)
handleValidationErrorDB(err) == AppError("Invalid input data. " \o err.message, 400)

\* The body and the status of the answer: message, and the error object and its
\* stack when they are part of it.
sendErrorDev(err) ==
    [statusCode |-> err.statusCode, message |-> err.message,
     error |-> Some(err), stack |-> Some(err.name)]

\* sendErrorProd answering an unexpected error with the error's own message
\* and stack.
sendErrorProdWithStack(err) ==
    [statusCode |-> err.statusCode, message |-> err.message,
     error |-> undefined, stack |-> IF isOperational(err) THEN undefined ELSE Some(err.name)]

sendErrorProd(err) ==
    IF isOperational(err)
      THEN [statusCode |-> err.statusCode, message |-> err.message,
            error |-> undefined, stack |-> undefined]
      ELSE [statusCode |-> Some(500), message |-> "Something went very wrong!",
            error |-> undefined, stack |-> undefined]

globalErrorHandeler(e, MODE) ==
    LET err == [e EXCEPT !.statusCode = IF @ = undefined THEN Some(500) ELSE @]
    IN  IF MODE = "development"
          THEN sendErrorDev(err)
          ELSE sendErrorProd(
                 IF err.name = "CastError" THEN handleCastErrorDB(err)
                 ELSE IF err.code = Some(11000) THEN handleDuplicateFieldsDB(err)
                 ELSE IF err.name = "ValidationError" THEN handleValidationErrorDB(err)
                 ELSE err)

\* The error a handler or a middleware passed to next() or threw reaches the
\* global error handler, which sends the answer.
sendError(MODE) ==
    LET answer == globalErrorHandeler(resp.err, MODE)
    IN  /\ resp.err # NoError /\ resp.status = undefined
        /\ resp' = [resp EXCEPT !.status = answer.statusCode, !.data = Some(answer)]
        /\ UNCHANGED <<users, nextId, now, options, issued, reqs, fate>>

SendError == \E MODE \in Modes : sendError(MODE)

\* The routes of /users: PATCH /:id runs passwordUpdateProtection and the
\* handler, DELETE /:id the handler; neither reads the request's credentials.
updateUser(req, id, body) == updateOneByIdCheck(id, body)
deleteUser(req, id) == deleteOneByIdCheck(id)

\* authorize with its test the wrong way round.
authorizeInverted(roles, user) ==
    IF user.role \in roles
      THEN AppError("You do not have permission to perform this action.", 403)
      ELSE NoError

\* authorize(...roles)(req, res, next): the error handed to next().
authorize(roles, user) ==
    IF user.role \notin roles
      THEN AppError("You do not have permission to perform this action.", 403)
      ELSE NoError

\* A request whose req.user is the stored user id meets the gate authorize(...roles).
Authorize(roles, id) ==
    /\ resp' = [Failed("authorize", authorize(roles, users[id]))
                   EXCEPT !.user = Some(users[id]), !.roles = roles]
    /\ UNCHANGED <<users, nextId, now, options, issued, reqs, fate>>

AuthorizeRequest == \E roles \in SUBSET roleEnum, id \in DOMAIN users : Authorize(roles, id)

Next ==
    \/ Tick
    \/ Register(EmailInputs, PasswordPairs, RoleInputs)
    \/ Login
    \/ ForgetPasswordFind
    \/ ForgetPasswordSave
    \/ RollbackPasswordResetFind
    \/ RollbackPasswordResetSave
    \/ ResetPassword(NewPasswordPairs)
    \/ UpdatePassword(NewPasswordPairs)
    \/ UpdatePasswordLoad
    \/ UpdatePasswordSave
    \/ UpdateOneByIdCheck(PatchBodies)
    \/ UpdateOneById
    \/ DeleteOneByIdCheck
    \/ DeleteOneById
    \/ Protect
    \/ GetOneById(1..(nextId - 1))
    \/ SendError
    \/ logout
    \/ GetAll(FilterInputs, SortInputs, 1..MaxPage)
    \/ CreateOne
    \/ AuthForgetPassword
    \/ RollbackPasswordResetResume
    \/ GetAllRequest
    \/ GetAllDocs
    \/ GetAllCount
    \/ UpdateMe

Spec == Init /\ [][Next]_vars

\* The password reset flow and everything that writes the reset fields, with one
\* acceptable password.
NextReset ==
    \/ Tick
    \/ Register(Emails, OnePassword, {"client"})
    \/ ForgetPasswordFind
    \/ ForgetPasswordSave
    \/ RollbackPasswordResetFind
    \/ RollbackPasswordResetSave
    \/ ResetPassword(OnePassword)
    \/ UpdatePassword(OnePassword)
    \/ UpdatePasswordLoad
    \/ UpdatePasswordSave
    \/ UpdateOneByIdCheck(ResetBodies)
    \/ UpdateOneById
    \/ DeleteOneByIdCheck
    \/ DeleteOneById

SpecReset == Init /\ [][NextReset]_vars

\* Accounts and their passwords: everything that writes an email or a password.
NextAccounts ==
    \/ Register(EmailInputs, PasswordPairs, RoleInputs)
    \/ Login
    \/ UpdatePassword(NewPasswordPairs)
    \/ UpdatePasswordLoad
    \/ UpdatePasswordSave
    \/ UpdateOneByIdCheck(ProfileBodies)
    \/ UpdateOneById
    \/ DeleteOneByIdCheck
    \/ DeleteOneById

SpecAccounts == Init /\ [][NextAccounts]_vars

\* The authentication middleware over the accounts that exist or existed.
NextGate ==
    \/ Register(Emails, OnePassword, {"client"})
    \/ Login
    \/ DeleteOneByIdCheck
    \/ DeleteOneById
    \/ Protect

SpecGate == Init /\ [][NextGate]_vars

\* Accounts, logout and the requests that present a token afterwards.
NextLogout ==
    \/ Register(Emails, OnePassword, {"client"})
    \/ Login
    \/ logout
    \/ Protect
    \/ Tick
SpecLogout == Init /\ [][NextLogout]_vars

\* The requests that fail, one way each, and the answer to the failure.
NextErrors ==
    \/ Register(EmailInputs, OnePassword, {"client"})
    \/ Login
    \/ Protect
    \/ GetOneById({malformedId} \cup 1..(nextId - 1))
    \/ DeleteOneByIdCheck
    \/ DeleteOneById
    \/ SendError
SpecErrors == Init /\ [][NextErrors]_vars

\* The role gate applied to the users of every role.
NextAuthorize ==
    \/ Register(Emails, OnePassword, roleEnum)
    \/ AuthorizeRequest

SpecAuthorize == Init /\ [][NextAuthorize]_vars

\* Calls on one account that overlap: up to MaxRaces of them are between two of
\* their awaits at a time.
CanRace == BagCardinality(reqs) < MaxRaces
RaceForgetPassword ==
    /\ CanRace /\ issued < MaxTokens
    /\ forgetPasswordFind("a@x.io")
RaceRollbackPasswordReset == CanRace /\ rollbackPasswordResetFind("a@x.io")
RaceResetPassword ==
    /\ CanRace
    /\ \E resetToken \in RawTokens : resetPassword(resetToken, "secret1", "secret1")
RaceUpdatePassword ==
    /\ CanRace
    /\ \E userId \in 1..(nextId - 1) : updatePassword(userId, "secret1", "secret1")
NextRace ==
    \/ Register({"a@x.io"}, OnePassword, {"client"})
    \/ RaceForgetPassword
    \/ ForgetPasswordSave
    \/ RaceRollbackPasswordReset
    \/ RollbackPasswordResetSave
    \/ RaceResetPassword
    \/ RaceUpdatePassword
    \/ UpdatePasswordLoad
    \/ UpdatePasswordSave
SpecRace == Init /\ [][NextRace]_vars

\* Requests to the user endpoints that overlap.
RaceUpdateOneById ==
    /\ CanRace
    /\ \E id \in 1..(nextId - 1), body \in ProfileBodies : updateOneByIdCheck(id, body)
RaceDeleteOneById ==
    /\ CanRace
    /\ \E id \in 1..(nextId - 1) : deleteOneByIdCheck(id)
NextUsersRace ==
    \/ Register(Emails, OnePassword, {"client"})
    \/ RaceUpdateOneById
    \/ UpdateOneById
    \/ RaceDeleteOneById
    \/ DeleteOneById
    \/ GetOneById(1..(nextId - 1))
SpecUsersRace == Init /\ [][NextUsersRace]_vars

\* Requests to the user endpoints that overlap only when they are on different
\* ids: a request starts when no request on its id is between its two round
\* trips to the store.
Apart(id) == \A r \in BagToSet(reqs) : r.uid # Some(id)
ApartUpdateOneById ==
    /\ CanRace
    /\ \E id \in 1..(nextId - 1), body \in ProfileBodies :
          Apart(id) /\ updateOneByIdCheck(id, body)
ApartDeleteOneById ==
    /\ CanRace
    /\ \E id \in 1..(nextId - 1) : Apart(id) /\ deleteOneByIdCheck(id)
NextUsersApart ==
    \/ Register(Emails, OnePassword, {"client"})
    \/ ApartUpdateOneById
    \/ UpdateOneById
    \/ ApartDeleteOneById
    \/ DeleteOneById
    \/ GetOneById(1..(nextId - 1))
SpecUsersApart == Init /\ [][NextUsersApart]_vars

\* POST /auth/forgot_password with its delivery step, and the reset that
\* presents the token.
NextForgot ==
    \/ Tick
    \/ Register(Emails, OnePassword, {"client"})
    \/ ForgetPasswordFind
    \/ AuthForgetPassword
    \/ RollbackPasswordResetResume
    \/ RollbackPasswordResetSave
    \/ ResetPassword(OnePassword)
    \/ UpdatePasswordLoad
    \/ UpdatePasswordSave
SpecForgot == Init /\ [][NextForgot]_vars

\* A forgot_password request whose delivery step may fail, next to a PATCH of
\* the account's email and the reset that presents the token.
NextDelivery ==
    \/ Register({"a@x.io"}, OnePassword, {"client"})
    \/ RaceForgetPassword
    \/ AuthForgetPassword
    \/ RollbackPasswordResetResume
    \/ RollbackPasswordResetSave
    \/ RaceUpdateOneById
    \/ UpdateOneById
    \/ RaceResetPassword
    \/ UpdatePasswordLoad
    \/ UpdatePasswordSave
SpecDelivery == Init /\ [][NextDelivery]_vars

\* List requests on GET /users that overlap, next to the registration of users.
NextListRequests ==
    \/ Register({"a@x.io"}, OnePassword, {"client", "admin"})
    \/ GetAllRequest
    \/ GetAllDocs
    \/ GetAllCount
SpecListRequests == Init /\ [][NextListRequests]_vars

\* Reset attempts with passwords the schema accepts and passwords it rejects.
NextResetAttempts ==
    \/ Tick
    \/ Register({"a@x.io"}, OnePassword, {"client"})
    \/ ForgetPasswordFind
    \/ ForgetPasswordSave
    \/ ResetPassword(PasswordPairs)
    \/ UpdatePasswordLoad
    \/ UpdatePasswordSave
SpecResetAttempts == Init /\ [][NextResetAttempts]_vars

\* update_me on accounts that may have a reset pending.
NextMe ==
    \/ Register(Emails, OnePassword, {"client"})
    \/ ForgetPasswordFind
    \/ ForgetPasswordSave
    \/ UpdateMe
SpecMe == Init /\ [][NextMe]_vars

\* Documents created through POST /users and read in pages.
NextLists ==
    \/ CreateOne
    \/ GetAll(FilterInputs, SortInputs, 1..MaxPage)
SpecLists == Init /\ [][NextLists]_vars

\* The three repository calls that hand documents back: createOne,
\* updateOneById and getAll with every projection.
NextDocuments ==
    \/ CreateOne
    \/ UpdateOneByIdCheck({[EmptyBody EXCEPT !.email = Some(e)] : e \in ListEmails})
    \/ UpdateOneById
    \/ GetAll({undefined}, {<<>>}, {1})
SpecDocuments == Init /\ [][NextDocuments]_vars

\* ------------------------------------------------------------------ claims
\* C1: in every user record passwordResetToken and passwordResetExpires are both
\* set or both unset, whatever operation ran, the generic user endpoints included.
ResetPairTogether ==
    \A i \in DOMAIN users :
        (users[i].passwordResetToken = undefined)
            <=> (users[i].passwordResetExpires = undefined)

\* C2: once a resetPassword call has succeeded with a token, every later
\* resetPassword call with that token is answered 400 'Token is invalid or has
\* expired', unless forgetPassword has issued the same token value again.
ResetTokenSingleUse ==
    [][\A t \in RawTokens, pw \in NewPasswordPairs :
          (resetPassword(t, pw[1], pw[2]) /\ fate[t] = "used" /\ pw[2] # "")
              => resp' = Response("resetPassword", InvalidOrExpired, undefined, t)]_vars

\* C3: a resetPassword call finds its user only while the clock is strictly
\* before the passwordResetExpires of a record that holds the token's hash; a call
\* with a token whose records have all expired is answered 400 'Token is invalid
\* or has expired' and leaves every user record as it was.
ResetOnlyBeforeExpiry ==
    [][\A t \in RawTokens, pw \in NewPasswordPairs :
          (resetPassword(t, pw[1], pw[2]) /\ pw[2] # "")
              => LET holders == {i \in DOMAIN users :
                                    users[i].passwordResetToken = Some(sha256(t))}
                     unexpired == {i \in holders :
                                    /\ users[i].passwordResetExpires # undefined
                                    /\ now < The(users[i].passwordResetExpires)}
                 IN  /\ reqs' # reqs => unexpired # {}
                     /\ unexpired = {} =>
                          /\ resp' = Response("resetPassword", InvalidOrExpired,
                                              undefined, t)
                          /\ reqs' = reqs
                          /\ users' = users]_vars

\* C3, reached: a resetPassword call was answered 400 'Token is invalid or has
\* expired' for a token whose hash a record holds with an expiry that has passed.
ExpiredTokenRefused ==
    \E t \in RawTokens, i \in DOMAIN users :
        /\ resp = Response("resetPassword", InvalidOrExpired, undefined, t)
        /\ users[i].passwordResetToken = Some(sha256(t))
        /\ users[i].passwordResetExpires # undefined
        /\ The(users[i].passwordResetExpires) <= now

\* C4: when rollbackPasswordReset has completed for a user, the user's reset
\* fields are both unset, and every later resetPassword call with the token that
\* forgetPassword had issued is answered 400 'Token is invalid or has expired'.
RolledBackTokenUnusable ==
    [][/\ \A r \in BagToSet(reqs) :
             (rollbackPasswordResetSave(r) /\ resp'.err = NoError)
                 => /\ users'[The(r.uid)].passwordResetToken = undefined
                    /\ users'[The(r.uid)].passwordResetExpires = undefined
       /\ \A t \in RawTokens, pw \in NewPasswordPairs :
             (resetPassword(t, pw[1], pw[2]) /\ fate[t] = "revoked" /\ pw[2] # "")
                 => resp' = Response("resetPassword", InvalidOrExpired, undefined, t)]_vars

\* C5: a login with a wrong password for an email somebody has and a login with
\* an email nobody has get the same answer: 'Incorrect email or password', 401,
\* and no token.
LoginFailuresAlike ==
    [][resp'.op = "login" =>
         \A email \in Emails, password \in PasswordInputs :
            LET user == findOneByEmail(email)
            IN  (/\ login(email, password)
                 /\ \/ user = undefined
                    \/ ~bcryptCompare(password, users[The(user)].password))
                    => /\ resp'.err = AppError("Incorrect email or password", 401)
                       /\ resp'.token = undefined]_vars

\* C5, reached: a login with the email of a stored user was answered
\* 'Incorrect email or password', 401.
WrongPasswordRefused ==
    \E email \in Emails :
        /\ resp = Response("login", AppError("Incorrect email or password", 401),
                           undefined, email)
        /\ findOneByEmail(email) # undefined

PasswordStoredHashed ==
    [][/\ \A email \in EmailInputs, pw \in PasswordPairs, role \in RoleInputs :
             (register(email, pw[1], pw[2], role) /\ resp'.err = NoError)
                 => users'[nextId].password = bcryptHash(pw[1])
       /\ \A r \in BagToSet(reqs) :
             (updatePasswordSave(r) /\ resp'.err = NoError)
                 => users'[The(r.uid)].password = bcryptHash(r.password)]_vars

\* C8: protect calls next() without an error only for a token that verifies and
\* whose user exists; a request with neither an Authorization header nor a jwt
\* cookie, and a request whose verified token names a deleted user, are answered
\* with an AppError of status 401.
ProtectRefuses ==
    [][\A req \in Requests :
          protect(req)
              => LET none == req.authorization = undefined /\ req.cookie = undefined
                     bearer == /\ req.authorization # undefined
                               /\ The(req.authorization).scheme = "Bearer"
                     carried == req.cookie # undefined \/ bearer
                     verified == /\ carried
                                 /\ tokenOf(req) # undefined
                                 /\ jwtVerify(The(tokenOf(req)))
                 IN  /\ resp'.err = NoError =>
                          verified /\ The(tokenOf(req)).id \in DOMAIN users
                     /\ none =>
                          resp'.err.name = "AppError" /\ resp'.err.statusCode = Some(401)
                     /\ (verified /\ The(tokenOf(req)).id \notin DOMAIN users) =>
                          resp'.err.name = "AppError" /\ resp'.err.statusCode = Some(401)]_vars

\* C8, reached: protect answered 401 for a verified token whose user was deleted.
DeletedUserRefused ==
    /\ resp.op = "protect"
    /\ resp.err = AppError("The user belonging to this token does no longer exist.", 401)
    /\ resp.token # undefined
    /\ jwtVerify(The(resp.token))
    /\ The(resp.token).id \notin DOMAIN users
    /\ The(resp.token).id < nextId

\* C9: when protect gets a token that verifies and whose user exists, it calls
\* next() without an error and req.user is that user's record.
ProtectAttachesUser ==
    [][\A req \in Requests :
          LET bearer == /\ req.authorization # undefined
                        /\ The(req.authorization).scheme = "Bearer"
              carried == req.cookie # undefined \/ bearer
          IN  (/\ protect(req)
               /\ carried
               /\ tokenOf(req) # undefined
               /\ jwtVerify(The(tokenOf(req)))
               /\ The(tokenOf(req)).id \in DOMAIN users)
                  => /\ resp'.err = NoError
                     /\ resp'.user = Some(users[The(tokenOf(req)).id])]_vars

\* C10: the gate authorize(r1, ..., rn) calls next() without an error exactly
\* when the role of req.user is one of r1, ..., rn, and otherwise hands next() an
\* AppError of status 403.
AuthorizeByRole ==
    [][\A roles \in SUBSET roleEnum, id \in DOMAIN users :
          Authorize(roles, id)
              => /\ resp'.err = NoError <=> users[id].role \in roles
                 /\ users[id].role \notin roles =>
                      resp'.err.name = "AppError" /\ resp'.err.statusCode = Some(403)]_vars

\* C10, reached: authorize('admin') refused a client with 403.
AdminGateRefusesClient ==
    /\ resp.op = "authorize"
    /\ resp.roles = {"admin"}
    /\ resp.user # undefined /\ The(resp.user).role = "client"
    /\ resp.err.statusCode = Some(403)

\* C11: the handlers of the user endpoints run only for a request that carries
\* a token that verifies, whose user exists and has role admin.
UserEndpointsAdminOnly ==
    [][\A req \in Requests, id \in 1..(nextId - 1) :
          LET bearer == /\ req.authorization # undefined
                        /\ The(req.authorization).scheme = "Bearer"
              admin == /\ req.cookie # undefined \/ bearer
                       /\ tokenOf(req) # undefined
                       /\ jwtVerify(The(tokenOf(req)))
                       /\ The(tokenOf(req)).id \in DOMAIN users
                       /\ users[The(tokenOf(req)).id].role = "admin"
          IN  /\ (deleteUser(req, id) /\ resp' = resp) => admin
              /\ \A body \in PatchBodies :
                    (updateUser(req, id, body) /\ ~passwordUpdateProtection(body))
                        => admin]_vars

\* C12: a forgetPassword call that succeeds generates a token no earlier call
\* got, stores its hash with an expiry of ten minutes after the time it read,
\* returns the token itself, and the stored passwordResetToken differs from the
\* token returned.
ForgetPasswordStoresHash ==
    [][/\ \A email \in Emails, r \in BagToSet(reqs') \ BagToSet(reqs) :
             forgetPasswordFind(email)
                 => /\ r.tok \notin IssuedTokens
                    /\ r.expires = Some(now + 10 * 60 * 1000)
       /\ \A r \in BagToSet(reqs) :
             (forgetPasswordSave(r) /\ resp'.err = NoError)
                 => /\ users'[The(r.uid)].passwordResetToken = Some(sha256(r.tok))
                    /\ users'[The(r.uid)].passwordResetToken # Some(r.tok)
                    /\ users'[The(r.uid)].passwordResetExpires = r.expires
                    /\ resp'.ref = r.tok]_vars

\* C13: every updatePassword call that succeeds, called on its own or by
\* resetPassword, leaves the record without passwordResetToken and without
\* passwordResetExpires, and returns a signed token whose id is the user's.
UpdatePasswordLeavesNone ==
    [][\A r \in BagToSet(reqs) :
          (updatePasswordSave(r) /\ resp'.err = NoError)
              => /\ users'[The(r.uid)].passwordResetToken = undefined
                 /\ users'[The(r.uid)].passwordResetExpires = undefined
                 /\ resp'.token # undefined
                 /\ The(resp'.token).id = The(r.uid)]_vars

\* C14: the update-by-id handler answers 404 and writes nothing when isExist(id)
\* is false; a call that got past isExist answers 409 and writes nothing when
\* updateOneById finds no document, and otherwise, unless the store throws,
\* answers 200 with the document as it is after the update. With no other call
\* on the same id in flight the 409 does not occur.
UpdateByIdOutcomes ==
    [][/\ \A id \in 1..(nextId - 1), body \in PatchBodies :
             (updateOneByIdCheck(id, body) /\ ~passwordUpdateProtection(body)
                                           /\ ~isExist(id))
                 => /\ resp'.err = AppError("No User found with that ID", 404)
                    /\ users' = users /\ reqs' = reqs
       /\ \A r \in BagToSet(reqs) :
             updateOneById(r)
                 => LET id == The(r.uid)
                    IN  /\ ~isExist(id) => (resp'.err.statusCode = Some(409)
                                              /\ users' = users)
                        /\ resp'.err.statusCode # Some(409)
                        /\ resp'.err # NoError => users' = users
                        /\ resp'.err = NoError
                             => /\ resp'.status = Some(200)
                                /\ The(resp'.data)["_id"] = id
                                /\ \A f \in DOMAIN The(resp'.data) \ {"_id"} :
                                      The(resp'.data)[f] = users'[id][f]
                                /\ r.body.email # undefined
                                      => users'[id].email = The(r.body.email)
                                /\ \A f \in {"passwordResetToken", "passwordResetExpires"} :
                                      r.body[f] # undefined => users'[id][f] = r.body[f]]_vars

\* C14, reached: an update-by-id of the first user's email answered 200 with
\* the document as stored.
UpdatedDocumentReturned ==
    /\ resp.op = "updateOneById" /\ resp.status = Some(200)
    /\ \E i \in DOMAIN users :
          /\ The(resp.data)["_id"] = i
          /\ The(resp.data)["email"] = users[i].email
          /\ users[i].email = "b@x.io" /\ i = 1 /\ nextId = 2

\* C15: the repository's deleteOneById returns null whether or not a document
\* matched, so under any interleaving a delete-by-id answers 404 (isExist false)
\* or 200 and never 409.
DeleteNeverConflict ==
    [][/\ \A id \in 1..(nextId - 1) :
             deleteOneByIdCheck(id)
                 => IF isExist(id)
                      THEN resp' = resp
                      ELSE resp'.err = AppError("No User found with that ID", 404)
                             /\ reqs' = reqs
       /\ \A r \in BagToSet(reqs) :
             deleteOneById(r)
                 => /\ deleteOneByIdReturn(The(r.uid)) = undefined
                    /\ resp'.err = NoError /\ resp'.status = Some(200)
                    /\ resp'.data = undefined
       /\ resp'.op = "deleteOneById" => resp'.err.statusCode # Some(409)]_vars

\* C15, reached: a delete-by-id answered 200 while another delete of the same
\* document, past its isExist, is still to run.
DeleteOfDeletedPending ==
    /\ resp.op = "deleteOneById" /\ resp.status = Some(200)
    /\ \E r \in BagToSet(reqs) : r.op = "deleteOneById" /\ ~isExist(The(r.uid))

\* C16: once a delete-by-id of an id has completed, the document is gone and
\* stays gone while nothing creates that id again, and a get-by-id of the id
\* finds nothing in the repository and answers 404 without any document.
DeletedNotFetched ==
    [][/\ \A r \in BagToSet(reqs) :
             deleteOneById(r) => The(r.uid) \notin DOMAIN users'
       /\ \A id \in 1..(nextId - 1) :
             /\ id \notin DOMAIN users => id \notin DOMAIN users'
             /\ (getOneById(id) /\ id \notin DOMAIN users)
                   => /\ findById(id) = undefined
                      /\ resp'.err = AppError("No User found with that ID", 404)
                      /\ resp'.data = undefined]_vars

\* C16, reached: a get-by-id of a deleted id answered 404.
DeletedAnswersNotFound ==
    /\ resp.op = "getOneById" /\ resp.err.statusCode = Some(404)
    /\ \E id \in 1..(nextId - 1) : id \notin DOMAIN users

\* C17: what getAll returns is, of the matching documents in the order of the
\* sort specification with _id as the last key, exactly those at positions
\* (page-1)*pageLimit+1 to page*pageLimit, in that order; the order is total.
GetAllPagination ==
    (resp.op = "getAll" /\ resp.err = NoError)
        => LET a == resp.ref
               docs == The(resp.data)
               matching == find(a.filter)
               spec == sortSpec(a.sortByFields)
               position(i) == 1 + Cardinality({j \in matching : before(j, i, spec)})
               first == (a.page - 1) * a.pageLimit + 1
               last == a.page * a.pageLimit
               window == {i \in matching : first <= position(i) /\ position(i) <= last}
           IN  /\ \A i, j \in matching :
                     i # j => (before(i, j, spec) <=> ~before(j, i, spec))
               /\ Len(docs) = Cardinality(window)
               /\ \A k \in 1..Len(docs) :
                     /\ docs[k]["_id"] \in window
                     /\ position(docs[k]["_id"]) = first + k - 1

\* C18: no document that createOne, updateOneById or getAll hands back carries
\* __v, whatever projection getAll was called with.
NoVersionReturned ==
    /\ (resp.op \in {"createOne", "updateOneById"} /\ resp.data # undefined)
          => "__v" \notin DOMAIN The(resp.data)
    /\ (resp.op = "getAll" /\ resp.data # undefined)
          => \A k \in 1..Len(The(resp.data)) : "__v" \notin DOMAIN The(resp.data)[k]

\* C18, reached: updateOneById handed back a document whose record holds __v.
VersionedDocumentReturned ==
    /\ resp.op = "updateOneById" /\ resp.data # undefined
    /\ "__v" \in DOMAIN users[The(resp.data)["_id"]]
    /\ users[The(resp.data)["_id"]].email = The(resp.data)["email"]

\* C19: logout returns 'none', puts it in a cookie that expires at once and
\* leaves the store as it is; after it, a request that presents in its
\* Authorization header a signed, unexpired token of an existing user passes
\* protect.
LogoutStateless ==
    [][/\ logout
            => /\ users' = users
               /\ resp'.data = Some([token |-> "none"])
               /\ resp'.cookie = Some([value |-> "none", expires |-> now])
       /\ resp.op = "logout"
            => \A req \in Requests :
                  (/\ protect(req)
                   /\ req.cookie = undefined
                   /\ req.authorization # undefined
                   /\ The(req.authorization).scheme = "Bearer"
                   /\ jwtVerify(The(tokenOf(req)))
                   /\ The(tokenOf(req)).id \in DOMAIN users)
                      => /\ resp'.err = NoError
                         /\ resp'.user # undefined]_vars

\* C20: outside development mode the global error handler answers an
\* operational error with the error's status code and message, a store fault it
\* translates (cast, duplicate key, validation) with 400, and every other error
\* with 500 and 'Something went very wrong!'; the error object and its stack
\* are in the answer in development mode and in no other.
ErrorHandlerModes ==
    [][\A MODE \in Modes :
          sendError(MODE)
              => LET err == resp.err
                     answer == The(resp'.data)
                     translated == \/ err.name \in {"CastError", "ValidationError"}
                                   \/ err.code = Some(11000)
                 IN  /\ (MODE # "development" /\ isOperational(err))
                           => /\ resp'.status = err.statusCode
                              /\ answer.message = err.message
                     /\ (MODE # "development" /\ translated)
                           => resp'.status = Some(400)
                     /\ (MODE # "development" /\ ~isOperational(err) /\ ~translated)
                           => /\ resp'.status = Some(500)
                              /\ answer.message = "Something went very wrong!"
                     /\ (answer.stack # undefined \/ answer.error # undefined)
                           <=> MODE = "development"]_vars

\* C20, reached: the TypeError of protect was answered 500 with the generic
\* message and neither error nor stack.
UnexpectedErrorHidden ==
    /\ resp.op = "protect" /\ resp.err.name = "TypeError"
    /\ resp.status = Some(500)
    /\ The(resp.data).message = "Something went very wrong!"
    /\ The(resp.data).stack = undefined

\* C21: the response of forgot_password carries the raw reset token only when
\* NODE_ENV is development; in every other mode, and whenever the request
\* fails, its payload holds no reset token.
ResetTokenOnlyInDevelopment ==
    [][\A r \in BagToSet(reqs), MODE \in Modes, delivered \in BOOLEAN :
          authForgetPassword(r, MODE, delivered)
              => /\ resp'.ref = ""
                 /\ resp'.data # undefined
                       => /\ MODE = "development" /\ delivered
                          /\ The(resp'.data) = [resetToken |-> r.tok]
                 /\ MODE # "development" => resp'.data = undefined
                 /\ resp'.err # NoError => resp'.data = undefined]_vars

\* C21, reached: a forgot_password request stored a reset token and answered
\* 200 with an empty payload.
ResetTokenWithheld ==
    /\ resp.op = "forgetPassword" /\ resp.status = Some(200)
    /\ resp.data = undefined
    /\ \E i \in DOMAIN users : \E t \in IssuedTokens :
          /\ users[i].passwordResetToken = Some(sha256(t))
          /\ fate[t] = "live"

DeleteBetweenGivesConflict ==
    [][\A r \in BagToSet(reqs) :
          (updateOneById(r) /\ ~isExist(The(r.uid)))
              => /\ resp'.err = AppError("User could not be updated. Please try again.", 409)
                 /\ users' = users]_vars

\* C23, amended: an update-by-id whose document was deleted after its isExist
\* never answers 404 and creates or modifies no document; it answers 409 when
\* the validators accept its body and the validators' error when they do not.
DeleteBetweenNeverNotFound ==
    [][\A r \in BagToSet(reqs) :
          (updateOneById(r) /\ ~isExist(The(r.uid)))
              => /\ users' = users
                 /\ resp'.err.statusCode # Some(404)
                 /\ resp'.err =
                       IF r.body.email # undefined /\ The(r.body.email) \notin ListEmails
                         THEN Thrown("ValidationError")
                         ELSE AppError("User could not be updated. Please try again.", 409)]_vars

\* C23, reached: an update-by-id answered 409 for an id whose document a
\* delete removed.
UpdateOfDeletedConflict ==
    /\ resp.op = "updateOneById" /\ resp.err.statusCode = Some(409)
    /\ \E id \in 1..(nextId - 1) : id \notin DOMAIN users

PasswordConfirmWriteOnly ==
    [][/\ \A email \in EmailInputs, pw \in PasswordPairs, role \in RoleInputs :
             (register(email, pw[1], pw[2], role) /\ resp'.err = NoError)
                 => pw[2] = pw[1]
       /\ \A r \in BagToSet(reqs) :
             (updatePasswordSave(r) /\ resp'.err = NoError)
                 => r.passwordConfirm = r.password
       /\ \A i \in DOMAIN users' : users'[i].passwordConfirm = ""]_vars

\* C26: of the resetPassword calls that present one reset token, however they
\* interleave, at most one returns a signed token: a call that returns one
\* presented a token no earlier call has succeeded with, and a call whose
\* updatePassword runs after another call succeeded with its token fails.
ResetTokenConsumedOnce ==
    [][\A r \in BagToSet(reqs) :
          (updatePasswordSave(r) /\ r.op = "resetPassword" /\ fate[r.tok] = "used")
              => resp'.err # NoError /\ resp'.token = undefined]_vars

\* C27: a list request calls getAll with the filter, sort, projection, page and
\* pageLimit of its own query string, or the handler's defaults for the parts
\* it omits, counts with that filter and describes the pagination with that
\* page and pageLimit, whatever other list requests asked for.
ListRequestIsolated ==
    [][LET own(query) ==
               [filter |-> Or(query.filter, getAllDefaults.filter),
                sortByFields |-> Or(query.sort, getAllDefaults.sortByFields),
                selectedFields |-> Or(query.select, getAllDefaults.selectedFields),
                page |-> Or(query.page, getAllDefaults.page),
                pageLimit |-> Or(query.limit, getAllDefaults.pageLimit)]
       IN  /\ \A query \in ListQueries :
                 getAllRequest(query)
                     => \E r \in BagToSet(reqs') :
                           r.body = query /\ The(r.doc).args = own(query)
           /\ \A r \in BagToSet(reqs) :
                 (getAllDocs(r) /\ resp' = resp)
                     => \E n \in BagToSet(reqs') :
                           /\ n.body = r.body /\ n.pc = "count"
                           /\ The(n.doc).filter = own(r.body).filter
           /\ \A r \in BagToSet(reqs) :
                 getAllCount(r)
                     => LET pagination == The(resp'.data).pagination
                        IN  /\ pagination.page = own(r.body).page
                            /\ pagination.pageLimit = own(r.body).pageLimit
                            /\ pagination.totalCount
                                   = Cardinality(find(own(r.body).filter))]_vars

\* C28: a resetPassword call that fails, at its lookup of the token or at the
\* save of a password the schema rejects, leaves every record of the store as
\* it was, so a token that was accepted before the call is accepted after it;
\* a call with a password and a passwordConfirm that differ does fail.
FailedResetChangesNothing ==
    [][/\ \A t \in RawTokens, pw \in PasswordPairs :
             (resetPassword(t, pw[1], pw[2]) /\ resp'.err # NoError /\ resp' # resp)
                 => users' = users
       /\ \A r \in BagToSet(reqs) :
             (r.op = "resetPassword" /\ (updatePasswordLoad(r) \/ updatePasswordSave(r)))
                 => /\ (updatePasswordSave(r) /\ r.password # r.passwordConfirm)
                          => resp'.err # NoError
                    /\ (updatePasswordSave(r) /\ Len(r.password) < minLength)
                          => resp'.err # NoError
                    /\ resp'.err # NoError
                          => /\ users' = users
                             /\ \A t \in RawTokens :
                                   findOneByResetToken(sha256(t))'
                                       = findOneByResetToken(sha256(t))]_vars

\* C28, reached: a resetPassword call was refused at its save and the token it
\* presented is still accepted.
RefusedResetKeepsToken ==
    /\ resp.op = "resetPassword" /\ resp.err = Thrown("ValidationError")
    /\ \E t \in IssuedTokens :
          fate[t] = "live" /\ findOneByResetToken(sha256(t)) # undefined

\* C29: whatever its body holds, update_me changes no record but the caller's
\* and of that record no path but name, email and phone: the caller's role,
\* password and reset pair stay as they are, and no record appears or goes.
UpdateMeFrame ==
    [][resp'.op = "updateMe" =>
       \A id \in 1..(nextId - 1), body \in MeBodies :
          updateMe(id, body)
              => /\ DOMAIN users' = DOMAIN users
                 /\ \A j \in DOMAIN users \ {id} : users'[j] = users[j]
                 /\ id \in DOMAIN users
                       => \A f \in DOMAIN users[id] \ {"name", "email", "phone"} :
                             users'[id][f] = users[id][f]]_vars

\* C29, reached: update_me gave the first of two users a new email while a
\* reset was pending for that user.
UpdateMeChangedEmail ==
    /\ resp.op = "updateMe" /\ resp.status = Some(200)
    /\ nextId = 3 /\ DOMAIN users = {1, 2}
    /\ users[1].email = "c@x.io"
    /\ users[1].passwordResetToken # undefined
    /\ users[1].role = "client"

\* C30: a login with the password the account's last register or password
\* change was given returns a signed token for that account, and a login with
\* any other password fails with 401. (The record's password field holds the
\* password that call was given: create and save store it as it is.)
LoginAcceptsLastPassword ==
    [][\A email \in Emails, q \in PasswordInputs :
          (login(email, q) /\ findOneByEmail(email) # undefined) =>
              LET u == The(findOneByEmail(email))
              IN  IF q = users[u].password
                    THEN /\ resp'.err = NoError
                         /\ resp'.token # undefined
                         /\ The(resp'.token).id = u
                    ELSE /\ resp'.err.statusCode = 401
                         /\ resp'.token = undefined]_vars

====
